---- MODULE Spec2Model ----
(***************************************************************************)
(* Model of deviceplugin/generic.go: the GenericPlugin device table, its   *)
(* reconciliation (discover, refreshDevices), the Allocate handler and the *)
(* ListAndWatch loop, run by concurrent goroutines sharing gp.mu.          *)
(***************************************************************************)
EXTENDS Integers, Sequences, FiniteSets, TLC

(***************************************************************************)
(* Bounds of the model.                                                    *)
(***************************************************************************)
\* interval waits the ListAndWatch loops come out of, all loops together
MaxTicks == 1
\* changes the environment makes to the filesystem
MaxFsChanges == 1
\* Allocate calls served
MaxAllocCalls == 2

Nil == "nil"
Healthy == "Healthy"

\* goroutines: two ListAndWatch streams and one Allocate caller
Loops == {"w1", "w2"}
Allocators == {"a1"}

(***************************************************************************)
(* The filesystem and filepath.Glob.                                       *)
(***************************************************************************)
\* every path that can exist, in the order sort.Strings puts them
AllPaths == <<"a1", "a2", "b1">>
Paths == {AllPaths[n] : n \in 1..Len(AllPaths)}
\* first and last byte of each path, which is all the patterns below look at
FirstByte(name) == CASE name = "a1" -> "a" [] name = "a2" -> "a" [] name = "b1" -> "b"
LastByte(name) == CASE name = "a1" -> "1" [] name = "a2" -> "2" [] name = "b1" -> "1"

ErrBadPattern == "syntax error in pattern"

\* filepath.Match for the patterns the device specifications use.  "b[" is
\* malformed: the scan reports it when a name gets as far as the open class.
Match(pattern, name) ==
    CASE pattern = "a*" -> [matched |-> FirstByte(name) = "a", err |-> Nil]
      [] pattern = "*1" -> [matched |-> LastByte(name) = "1", err |-> Nil]
      [] pattern = "b[" -> IF FirstByte(name) = "b"
                           THEN [matched |-> FALSE, err |-> ErrBadPattern]
                           ELSE [matched |-> FALSE, err |-> Nil]

\* sort.Strings over a set of paths
SortStrings(S) == SelectSeq(AllPaths, LAMBDA p : p \in S)

\* filepath.Glob(pattern) followed by sort.Strings(matches), on filesystem files
Glob(pattern, files) ==
    IF \E name \in files : Match(pattern, name).err # Nil
    THEN [matches |-> <<>>, err |-> ErrBadPattern]
    ELSE [matches |-> SortStrings({name \in files : Match(pattern, name).matched}),
          err |-> Nil]

(***************************************************************************)
(* DeviceSpec values the plugin is constructed with.                       *)
(***************************************************************************)
DeviceSpecs ==
    { [Groups |-> << <<"a*">> >>, Count |-> 2],
      [Groups |-> << <<"a*", "*1">> >>, Count |-> 1],
      [Groups |-> << <<"a*">>, <<"*1">> >>, Count |-> 1],
      [Groups |-> << <<"a*">>, <<"b[">> >>, Count |-> 1] }

(***************************************************************************)
(* discover.                                                               *)
(***************************************************************************)
Digit(n) == CASE n = 0 -> "0" [] n = 1 -> "1" [] n = 2 -> "2" [] n = 3 -> "3"
              [] n = 4 -> "4" [] n = 5 -> "5" [] n = 6 -> "6" [] n = 7 -> "7"
              [] n = 8 -> "8" [] n = 9 -> "9"

RECURSIVE FormatUint(_)
\* strconv.FormatUint(j, 10)
FormatUint(j) == IF j < 10 THEN Digit(j) ELSE FormatUint(j \div 10) \o Digit(j % 10)

\* hex of the SHA-1 digest, taken as injective on the bytes written to it
Sha1Hex(bytes) == "sha1:" \o bytes

RECURSIVE WriteAll(_, _)
\* the h.Write calls of one device: the bytes written so far, then each path
WriteAll(bytes, ps) ==
    IF ps = <<>> THEN bytes ELSE WriteAll(bytes \o Head(ps), Tail(ps))

RECURSIVE ShortestLength(_, _, _)
\* the length bookkeeping of the glob loop over one group
ShortestLength(paths, i, length) ==
    IF i > Len(paths) THEN length
    ELSE ShortestLength(paths, i + 1,
            IF length = 0 \/ Len(paths[i]) < length THEN Len(paths[i]) ELSE length)

\* NewDevice as it would be if the Health field were left at its zero value
NewDeviceNoHealth(paths, i, j) ==
    LET ps == [k \in 1..Len(paths) |-> paths[k][i]]
    IN [ID |-> Sha1Hex(WriteAll(FormatUint(j), ps)), Health |-> "", paths |-> ps]

\* the device built for positional index i (from 1) and ordinal j of a group
NewDevice(paths, i, j) ==
    LET ps == [k \in 1..Len(paths) |-> paths[k][i]]
    IN [ID |-> Sha1Hex(WriteAll(FormatUint(j), ps)), Health |-> Healthy, paths |-> ps]

\* the outcome of one group: its devices, a glob error, or an index out of range
DiscoverGroup(group, count, files) ==
    LET globs == [k \in 1..Len(group) |-> Glob(group[k], files)]
        paths == [k \in 1..Len(group) |-> globs[k].matches]
        length == ShortestLength(paths, 1, 0)
    IN IF \E k \in 1..Len(group) : globs[k].err # Nil
       THEN [devices |-> <<>>, err |-> ErrBadPattern, panic |-> FALSE]
       ELSE IF count > 0 /\ \E k \in 1..Len(group) : Len(paths[k]) < length
       THEN [devices |-> <<>>, err |-> Nil, panic |-> TRUE]
       ELSE [devices |-> [n \in 1..(length * count) |->
                            NewDevice(paths, ((n - 1) \div count) + 1, (n - 1) % count)],
             err |-> Nil, panic |-> FALSE]

RECURSIVE DiscoverFrom(_, _, _, _)
DiscoverFrom(spec, g, devs, files) ==
    IF g > Len(spec.Groups) THEN [devices |-> devs, err |-> Nil, panic |-> FALSE]
    ELSE LET r == DiscoverGroup(spec.Groups[g], spec.Count, files)
         IN IF r.err # Nil \/ r.panic THEN r
            ELSE DiscoverFrom(spec, g + 1, devs \o r.devices, files)

\* gp.discover() on filesystem files
discover(spec, files) == DiscoverFrom(spec, 1, <<>>, files)

(***************************************************************************)
(* State.                                                                  *)
(***************************************************************************)
VARIABLES
    ds,                 \* gp.ds, fixed at construction
    files,              \* the paths that exist on the filesystem
    fsChanges,          \* how many times the environment changed the filesystem
    devices,            \* gp.devices: identifier -> device
    mu,                 \* gp.mu: Nil or the goroutine holding it
    deviceGauge,        \* gp.deviceGauge
    allocationsCounter, \* gp.allocationsCounter
    fault,              \* Nil, or the runtime fault that ended the process
    pc,                 \* where each ListAndWatch goroutine is
    found,              \* refreshDevices: the slice discover returned
    old,                \* refreshDevices: old
    equal,              \* refreshDevices: equal
    next,               \* refreshDevices: position of the range over found
    unchanged,          \* the boolean the last refreshDevices call returned
    ok,                 \* ListAndWatch: ok
    err,                \* ListAndWatch: the error it returned, or Nil
    res,                \* ListAndWatch: the response being sent
    stream,             \* each stream: how many responses it carried, and the last
    ticks,              \* interval waits each loop has come out of
    latest,             \* the goroutine whose discover succeeded last, or Nil
    apc,                \* where each Allocate caller is
    calls,              \* Allocate calls each caller has made
    req,                \* Allocate: req.ContainerRequests
    group,              \* Allocate: position of the range over the requests
    item,               \* Allocate: position of the range over r.DevicesIDs
    resp,               \* Allocate: resp.Devices of the current request
    responses,          \* Allocate: res.ContainerResponses
    result              \* what the last Allocate call returned

loopVars == <<pc, found, old, equal, next, unchanged, ok, err, res, stream, ticks>>
allocVars == <<apc, calls, req, group, item, resp, responses, result>>
vars == <<ds, files, fsChanges, devices, mu, deviceGauge, allocationsCounter,
          fault, latest, loopVars, allocVars>>

\* make(map[string]device)
EmptyTable == [id \in {} |-> Nil]

\* gp.devices[d.ID] = d
Put(table, d) ==
    [id \in (DOMAIN table) \cup {d.ID} |-> IF id = d.ID THEN d ELSE table[id]]

IdSet(devs) == {devs[n].ID : n \in 1..Len(devs)}

\* the table the range over a discovered slice builds
TableOf(devs) ==
    [id \in IdSet(devs) |->
        devs[CHOOSE n \in 1..Len(devs) :
                devs[n].ID = id /\ \A m \in (n + 1)..Len(devs) : devs[m].ID # id]]

\* the state after NewGenericPlugin, with ListAndWatch called on the streams
\* in started and not yet past its first line
InitWith(started) ==
    /\ ds \in DeviceSpecs
    /\ files \in SUBSET Paths
    /\ fsChanges = 0
    /\ devices = EmptyTable
    /\ mu = Nil
    /\ deviceGauge = 0
    /\ allocationsCounter = 0
    /\ fault = Nil
    /\ latest = Nil
    /\ pc = [w \in Loops |-> IF w \in started THEN "discover" ELSE "idle"]
    /\ found = [w \in Loops |-> <<>>]
    /\ old = [w \in Loops |-> EmptyTable]
    /\ equal = [w \in Loops |-> FALSE]
    /\ next = [w \in Loops |-> 1]
    /\ unchanged = [w \in Loops |-> FALSE]
    /\ ok = [w \in Loops |-> FALSE]
    /\ err = [w \in Loops |-> Nil]
    /\ res = [w \in Loops |-> {}]
    /\ stream = [w \in Loops |-> [sent |-> 0, last |-> {}]]
    /\ ticks = [w \in Loops |-> 0]
    /\ apc = [a \in Allocators |-> "idle"]
    /\ calls = [a \in Allocators |-> 0]
    /\ req = [a \in Allocators |-> <<>>]
    /\ group = [a \in Allocators |-> 1]
    /\ item = [a \in Allocators |-> 1]
    /\ resp = [a \in Allocators |-> <<>>]
    /\ responses = [a \in Allocators |-> <<>>]
    /\ result = [a \in Allocators |-> [res |-> Nil, err |-> Nil]]

(***************************************************************************)
(* The environment: a path appears or disappears.                          *)
(***************************************************************************)
FsChange ==
    /\ fault = Nil
    /\ fsChanges < MaxFsChanges
    /\ \E p \in Paths : files' = IF p \in files THEN files \ {p} ELSE files \cup {p}
    /\ fsChanges' = fsChanges + 1
    /\ UNCHANGED <<ds, devices, mu, deviceGauge, allocationsCounter, fault,
                   latest, loopVars, allocVars>>

(***************************************************************************)
(* refreshDevices, as called by ListAndWatch goroutine w.                  *)
(***************************************************************************)
\* gp.discover() returns a device slice
Discover(w) ==
    /\ fault = Nil
    /\ pc[w] = "discover"
    /\ LET r == discover(ds, files)
       IN /\ r.err = Nil /\ ~r.panic
          /\ found' = [found EXCEPT ![w] = r.devices]
          /\ latest' = w
    /\ pc' = [pc EXCEPT ![w] = "gauge"]
    /\ UNCHANGED <<ds, files, fsChanges, devices, mu, deviceGauge, allocationsCounter,
                   fault, old, equal, next, unchanged, ok, err, res, stream, ticks,
                   allocVars>>

\* DiscoverFail as it would be if refreshDevices emptied the table before
\* it ran discover
DiscoverFailClearsTable(w) ==
    /\ fault = Nil
    /\ pc[w] = "discover"
    /\ LET r == discover(ds, files) IN r.err # Nil /\ ~r.panic
    /\ pc' = [pc EXCEPT ![w] = "terminated"]
    /\ err' = [err EXCEPT ![w] = "failed to discover devices"]
    /\ devices' = EmptyTable
    /\ UNCHANGED <<ds, files, fsChanges, mu, deviceGauge, allocationsCounter,
                   fault, latest, found, old, equal, next, unchanged, ok, res,
                   stream, ticks, allocVars>>

\* gp.discover() returns an error: refreshDevices and ListAndWatch return it
DiscoverFail(w) ==
    /\ fault = Nil
    /\ pc[w] = "discover"
    /\ LET r == discover(ds, files) IN r.err # Nil /\ ~r.panic
    /\ pc' = [pc EXCEPT ![w] = "terminated"]
    /\ err' = [err EXCEPT ![w] = "failed to discover devices"]
    /\ UNCHANGED <<ds, files, fsChanges, devices, mu, deviceGauge, allocationsCounter,
                   fault, latest, found, old, equal, next, unchanged, ok, res,
                   stream, ticks, allocVars>>

\* gp.discover() indexes a match list past its end: the process dies
DiscoverPanic(w) ==
    /\ fault = Nil
    /\ pc[w] = "discover"
    /\ discover(ds, files).panic
    /\ fault' = "index out of range"
    /\ UNCHANGED <<ds, files, fsChanges, devices, mu, deviceGauge, allocationsCounter,
                   latest, loopVars, allocVars>>

\* gp.deviceGauge.Set(float64(len(devices)))
SetGauge(w) ==
    /\ fault = Nil
    /\ pc[w] = "gauge"
    /\ deviceGauge' = Len(found[w])
    /\ pc' = [pc EXCEPT ![w] = "lock"]
    /\ UNCHANGED <<ds, files, fsChanges, devices, mu, allocationsCounter, fault,
                   latest, found, old, equal, next, unchanged, ok, err, res,
                   stream, ticks, allocVars>>

\* RefreshLock as it would be if refreshDevices did not wait for gp.mu
RefreshLockNoMutex(w) ==
    /\ fault = Nil
    /\ pc[w] = "lock"
    /\ mu' = w
    /\ old' = [old EXCEPT ![w] = devices]
    /\ devices' = EmptyTable
    /\ equal' = [equal EXCEPT ![w] = FALSE]
    /\ next' = [next EXCEPT ![w] = 1]
    /\ pc' = [pc EXCEPT ![w] = "insert"]
    /\ UNCHANGED <<ds, files, fsChanges, deviceGauge, allocationsCounter, fault,
                   latest, found, unchanged, ok, err, res, stream, ticks,
                   allocVars>>

\* RefreshLock as it would be if the new devices were added to the old map
\* instead of a fresh one
RefreshLockKeepsTable(w) ==
    /\ fault = Nil
    /\ pc[w] = "lock"
    /\ mu = Nil
    /\ mu' = w
    /\ old' = [old EXCEPT ![w] = devices]
    /\ equal' = [equal EXCEPT ![w] = FALSE]
    /\ next' = [next EXCEPT ![w] = 1]
    /\ pc' = [pc EXCEPT ![w] = "insert"]
    /\ UNCHANGED <<ds, files, fsChanges, devices, deviceGauge, allocationsCounter,
                   fault, latest, found, unchanged, ok, err, res, stream, ticks,
                   allocVars>>

\* gp.mu.Lock(); old := gp.devices; gp.devices = make(map[string]device); var equal bool
RefreshLock(w) ==
    /\ fault = Nil
    /\ pc[w] = "lock"
    /\ mu = Nil
    /\ mu' = w
    /\ old' = [old EXCEPT ![w] = devices]
    /\ devices' = EmptyTable
    /\ equal' = [equal EXCEPT ![w] = FALSE]
    /\ next' = [next EXCEPT ![w] = 1]
    /\ pc' = [pc EXCEPT ![w] = "insert"]
    /\ UNCHANGED <<ds, files, fsChanges, deviceGauge, allocationsCounter, fault,
                   latest, found, unchanged, ok, err, res, stream, ticks,
                   allocVars>>

\* one iteration of the range over the discovered devices
RefreshInsert(w) ==
    /\ fault = Nil
    /\ pc[w] = "insert"
    /\ next[w] <= Len(found[w])
    /\ LET d == found[w][next[w]]
       IN /\ devices' = Put(devices, d)
          /\ equal' = [equal EXCEPT ![w] = IF d.ID \notin DOMAIN old[w] THEN FALSE ELSE @]
    /\ next' = [next EXCEPT ![w] = @ + 1]
    /\ UNCHANGED <<ds, files, fsChanges, mu, deviceGauge, allocationsCounter, fault,
                   latest, pc, found, old, unchanged, ok, err, res, stream,
                   ticks, allocVars>>

\* the value refreshDevices returns once the table is rebuilt
RefreshResult(eq, oldTable, newTable) ==
    IF ~eq THEN FALSE
    ELSE IF \E k \in DOMAIN oldTable : k \notin DOMAIN newTable THEN FALSE
    ELSE TRUE

\* RefreshReturn as it would be if every refresh of a tick reported no change
RefreshReturnSkipsPush(w) ==
    /\ fault = Nil
    /\ pc[w] = "insert"
    /\ next[w] > Len(found[w])
    /\ LET u == RefreshResult(equal[w], old[w], devices)
           k == ticks[w] # 0
       IN /\ unchanged' = [unchanged EXCEPT ![w] = u]
          /\ ok' = [ok EXCEPT ![w] = k]
          /\ pc' = [pc EXCEPT ![w] = IF k THEN "wait" ELSE "build"]
    /\ mu' = Nil
    /\ old' = [old EXCEPT ![w] = EmptyTable]
    /\ equal' = [equal EXCEPT ![w] = FALSE]
    /\ next' = [next EXCEPT ![w] = 1]
    /\ UNCHANGED <<ds, files, fsChanges, devices, deviceGauge, allocationsCounter,
                   fault, latest, found, err, res, stream, ticks, allocVars>>

\* the end of refreshDevices (with the deferred Unlock) and what ListAndWatch
\* does with its result: the first call's boolean is dropped and ok is false
RefreshReturn(w) ==
    /\ fault = Nil
    /\ pc[w] = "insert"
    /\ next[w] > Len(found[w])
    /\ LET u == RefreshResult(equal[w], old[w], devices)
           k == IF ticks[w] = 0 THEN FALSE ELSE u
       IN /\ unchanged' = [unchanged EXCEPT ![w] = u]
          /\ ok' = [ok EXCEPT ![w] = k]
          /\ pc' = [pc EXCEPT ![w] = IF k THEN "wait" ELSE "build"]
    /\ mu' = Nil
    /\ old' = [old EXCEPT ![w] = EmptyTable]
    /\ equal' = [equal EXCEPT ![w] = FALSE]
    /\ next' = [next EXCEPT ![w] = 1]
    /\ UNCHANGED <<ds, files, fsChanges, devices, deviceGauge, allocationsCounter,
                   fault, latest, found, err, res, stream, ticks, allocVars>>

(***************************************************************************)
(* ListAndWatch, goroutine w.                                              *)
(***************************************************************************)
\* the v1beta1.Device list built from a table
DeviceList(table) == {[ID |-> table[id].ID, Health |-> table[id].Health] : id \in DOMAIN table}

\* Build as it would be if the response listed only the devices the last
\* response did not list
BuildDelta(w) ==
    /\ fault = Nil
    /\ pc[w] = "build"
    /\ res' = [res EXCEPT ![w] = DeviceList(devices) \ stream[w].last]
    /\ pc' = [pc EXCEPT ![w] = "send"]
    /\ UNCHANGED <<ds, files, fsChanges, devices, mu, deviceGauge, allocationsCounter,
                   fault, latest, found, old, equal, next, unchanged, ok, err,
                   stream, ticks, allocVars>>

\* if !ok: res := new(ListAndWatchResponse); for _, dev := range gp.devices ...
\* The range runs without gp.mu and walks whatever the map holds at that time.
Build(w) ==
    /\ fault = Nil
    /\ pc[w] = "build"
    /\ res' = [res EXCEPT ![w] = DeviceList(devices)]
    /\ pc' = [pc EXCEPT ![w] = "send"]
    /\ UNCHANGED <<ds, files, fsChanges, devices, mu, deviceGauge, allocationsCounter,
                   fault, latest, found, old, equal, next, unchanged, ok, err,
                   stream, ticks, allocVars>>

\* the range over gp.devices meets a map write of another goroutine
BuildFault(w) ==
    /\ fault = Nil
    /\ pc[w] = "build"
    /\ \E v \in Loops \ {w} : pc[v] = "insert" /\ next[v] <= Len(found[v])
    /\ fault' = "concurrent map iteration and map write"
    /\ UNCHANGED <<ds, files, fsChanges, devices, mu, deviceGauge, allocationsCounter,
                   latest, loopVars, allocVars>>

\* stream.Send(res) succeeds
Send(w) ==
    /\ fault = Nil
    /\ pc[w] = "send"
    /\ stream' = [stream EXCEPT ![w] = [sent |-> @.sent + 1, last |-> res[w]]]
    /\ res' = [res EXCEPT ![w] = {}]
    /\ pc' = [pc EXCEPT ![w] = "wait"]
    /\ UNCHANGED <<ds, files, fsChanges, devices, mu, deviceGauge, allocationsCounter,
                   fault, latest, found, old, equal, next, unchanged, ok, err,
                   ticks, allocVars>>

\* SendFail as it would be if ListAndWatch noted the error and went on to wait
SendFailContinues(w) ==
    /\ fault = Nil
    /\ pc[w] = "send"
    /\ err' = [err EXCEPT ![w] = "send failed"]
    /\ pc' = [pc EXCEPT ![w] = "wait"]
    /\ UNCHANGED <<ds, files, fsChanges, devices, mu, deviceGauge, allocationsCounter,
                   fault, latest, found, old, equal, next, unchanged, ok, res,
                   stream, ticks, allocVars>>

\* stream.Send(res) fails: ListAndWatch returns the error
SendFail(w) ==
    /\ fault = Nil
    /\ pc[w] = "send"
    /\ err' = [err EXCEPT ![w] = "send failed"]
    /\ pc' = [pc EXCEPT ![w] = "terminated"]
    /\ UNCHANGED <<ds, files, fsChanges, devices, mu, deviceGauge, allocationsCounter,
                   fault, latest, found, old, equal, next, unchanged, ok, res,
                   stream, ticks, allocVars>>

RECURSIVE TotalTicks(_)
TotalTicks(L) ==
    IF L = {} THEN 0
    ELSE LET w == CHOOSE w \in L : TRUE IN ticks[w] + TotalTicks(L \ {w})

\* Tick as it would be if refreshDevices took gp.mu on entry, before discover
TickTakesLock(w) ==
    /\ fault = Nil
    /\ pc[w] = "wait"
    /\ TotalTicks(Loops) < MaxTicks
    /\ mu = Nil
    /\ mu' = w
    /\ ticks' = [ticks EXCEPT ![w] = @ + 1]
    /\ pc' = [pc EXCEPT ![w] = "discover"]
    /\ UNCHANGED <<ds, files, fsChanges, devices, deviceGauge, allocationsCounter,
                   fault, latest, found, old, equal, next, unchanged, ok, err,
                   res, stream, allocVars>>

\* <-time.After(deviceCheckInterval), then the call of refreshDevices
Tick(w) ==
    /\ fault = Nil
    /\ pc[w] = "wait"
    /\ TotalTicks(Loops) < MaxTicks
    /\ ticks' = [ticks EXCEPT ![w] = @ + 1]
    /\ pc' = [pc EXCEPT ![w] = "discover"]
    /\ UNCHANGED <<ds, files, fsChanges, devices, mu, deviceGauge, allocationsCounter,
                   fault, latest, found, old, equal, next, unchanged, ok, err,
                   res, stream, allocVars>>

(***************************************************************************)
(* Allocate, caller a.                                                     *)
(***************************************************************************)
\* The ContainerRequests a caller sends: one or two requests of up to two
\* identifiers, over the ordinal-0 identifiers of the one-path devices a1 and
\* a2 and of the two-path device (a2, b1).
Requests ==
    LET A == Sha1Hex("0a1")
        B == Sha1Hex("0a2b1")
        C == Sha1Hex("0a2")
    IN { << <<A>> >>, << <<B>> >>, << <<A, C>> >>, << <<A, A>>, <<>> >>,
         << <<A>>, <<C>> >>, << <<B>>, <<A>> >>, << <<B>>, <<B, B>> >> }

\* Bindings as it would be if every binding took the device's first path as
\* its container path
BindingsFirstContainerPath(dev) ==
    [n \in 1..Len(dev.paths) |->
        [HostPath |-> dev.paths[n], ContainerPath |-> dev.paths[1], Permissions |-> "mrw"]]

\* the DeviceSpec bindings appended for one device
Bindings(dev) ==
    [n \in 1..Len(dev.paths) |->
        [HostPath |-> dev.paths[n], ContainerPath |-> dev.paths[n], Permissions |-> "mrw"]]

\* gp.mu.Lock(); res := &AllocateResponse{...}, and the first resp
AllocLock(a, r) ==
    /\ fault = Nil
    /\ apc[a] \in {"idle", "done"}
    /\ calls[a] < MaxAllocCalls
    /\ mu = Nil
    /\ mu' = a
    /\ apc' = [apc EXCEPT ![a] = "run"]
    /\ calls' = [calls EXCEPT ![a] = @ + 1]
    /\ req' = [req EXCEPT ![a] = r]
    /\ group' = [group EXCEPT ![a] = 1]
    /\ item' = [item EXCEPT ![a] = 1]
    /\ resp' = [resp EXCEPT ![a] = <<>>]
    /\ responses' = [responses EXCEPT ![a] = <<>>]
    /\ result' = [result EXCEPT ![a] = [res |-> Nil, err |-> Nil]]
    /\ UNCHANGED <<ds, files, fsChanges, devices, deviceGauge, allocationsCounter,
                   fault, latest, loopVars>>

\* the error Allocate returns for identifier id, or Nil
AllocError(table, id) ==
    IF id \notin DOMAIN table THEN "requested device does not exist"
    ELSE IF table[id].Health # Healthy THEN "requested device is not healthy"
    ELSE Nil

\* AllocDevice as it would be if a bound device were taken out of the table
AllocDeviceReserves(a) ==
    /\ fault = Nil
    /\ apc[a] = "run"
    /\ group[a] <= Len(req[a])
    /\ item[a] <= Len(req[a][group[a]])
    /\ LET id == req[a][group[a]][item[a]]
       IN /\ AllocError(devices, id) = Nil
          /\ resp' = [resp EXCEPT ![a] = @ \o Bindings(devices[id])]
          /\ devices' = [k \in DOMAIN devices \ {id} |-> devices[k]]
    /\ item' = [item EXCEPT ![a] = @ + 1]
    /\ UNCHANGED <<ds, files, fsChanges, mu, deviceGauge, allocationsCounter,
                   fault, latest, loopVars, apc, calls, req, group, responses,
                   result>>

\* one requested identifier is found healthy and its paths are bound
AllocDevice(a) ==
    /\ fault = Nil
    /\ apc[a] = "run"
    /\ group[a] <= Len(req[a])
    /\ item[a] <= Len(req[a][group[a]])
    /\ LET id == req[a][group[a]][item[a]]
       IN /\ AllocError(devices, id) = Nil
          /\ resp' = [resp EXCEPT ![a] = @ \o Bindings(devices[id])]
    /\ item' = [item EXCEPT ![a] = @ + 1]
    /\ UNCHANGED <<ds, files, fsChanges, devices, mu, deviceGauge, allocationsCounter,
                   fault, latest, loopVars, apc, calls, req, group, responses,
                   result>>

\* AllocFail as it would be if Allocate returned what it had built so far
\* together with the error
AllocFailPartial(a) ==
    /\ fault = Nil
    /\ apc[a] = "run"
    /\ group[a] <= Len(req[a])
    /\ item[a] <= Len(req[a][group[a]])
    /\ LET e == AllocError(devices, req[a][group[a]][item[a]])
       IN /\ e # Nil
          /\ result' = [result EXCEPT ![a] = [res |-> Append(responses[a], resp[a]), err |-> e]]
    /\ apc' = [apc EXCEPT ![a] = "done"]
    /\ mu' = Nil
    /\ UNCHANGED <<ds, files, fsChanges, devices, deviceGauge, allocationsCounter,
                   fault, latest, loopVars, calls, req, group, item, resp,
                   responses>>

\* one requested identifier is absent or unhealthy: return nil and the error
AllocFail(a) ==
    /\ fault = Nil
    /\ apc[a] = "run"
    /\ group[a] <= Len(req[a])
    /\ item[a] <= Len(req[a][group[a]])
    /\ LET e == AllocError(devices, req[a][group[a]][item[a]])
       IN /\ e # Nil
          /\ result' = [result EXCEPT ![a] = [res |-> Nil, err |-> e]]
    /\ apc' = [apc EXCEPT ![a] = "done"]
    /\ mu' = Nil
    /\ UNCHANGED <<ds, files, fsChanges, devices, deviceGauge, allocationsCounter,
                   fault, latest, loopVars, calls, req, group, item, resp,
                   responses>>

\* res.ContainerResponses = append(res.ContainerResponses, resp), next request
AllocAppend(a) ==
    /\ fault = Nil
    /\ apc[a] = "run"
    /\ group[a] <= Len(req[a])
    /\ item[a] > Len(req[a][group[a]])
    /\ responses' = [responses EXCEPT ![a] = Append(@, resp[a])]
    /\ resp' = [resp EXCEPT ![a] = <<>>]
    /\ group' = [group EXCEPT ![a] = @ + 1]
    /\ item' = [item EXCEPT ![a] = 1]
    /\ UNCHANGED <<ds, files, fsChanges, devices, mu, deviceGauge, allocationsCounter,
                   fault, latest, loopVars, apc, calls, req, result>>

\* AllocReturn as it would be if the counter counted calls, not requests
AllocReturnCountsCalls(a) ==
    /\ fault = Nil
    /\ apc[a] = "run"
    /\ group[a] > Len(req[a])
    /\ allocationsCounter' = allocationsCounter + 1
    /\ result' = [result EXCEPT ![a] = [res |-> responses[a], err |-> Nil]]
    /\ apc' = [apc EXCEPT ![a] = "done"]
    /\ mu' = Nil
    /\ UNCHANGED <<ds, files, fsChanges, devices, deviceGauge, fault, latest,
                   loopVars, calls, req, group, item, resp, responses>>

\* gp.allocationsCounter.Add(len(res.ContainerResponses)); return res, nil
AllocReturn(a) ==
    /\ fault = Nil
    /\ apc[a] = "run"
    /\ group[a] > Len(req[a])
    /\ allocationsCounter' = allocationsCounter + Len(responses[a])
    /\ result' = [result EXCEPT ![a] = [res |-> responses[a], err |-> Nil]]
    /\ apc' = [apc EXCEPT ![a] = "done"]
    /\ mu' = Nil
    /\ UNCHANGED <<ds, files, fsChanges, devices, deviceGauge, fault, latest,
                   loopVars, calls, req, group, item, resp, responses>>

(***************************************************************************)
(* The specification.                                                      *)
(***************************************************************************)
\* the steps of the ListAndWatch goroutines in L
LoopStep(L) ==
    \/ \E w \in L : Discover(w)
    \/ \E w \in L : DiscoverFail(w)
    \/ \E w \in L : DiscoverPanic(w)
    \/ \E w \in L : SetGauge(w)
    \/ \E w \in L : RefreshLock(w)
    \/ \E w \in L : RefreshInsert(w)
    \/ \E w \in L : RefreshReturn(w)
    \/ \E w \in L : Build(w)
    \/ \E w \in L : Send(w)
    \/ \E w \in L : SendFail(w)
    \/ \E w \in L : Tick(w)

\* the steps of the Allocate callers
AllocStep ==
    \/ \E a \in Allocators, r \in Requests : AllocLock(a, r)
    \/ \E a \in Allocators : AllocDevice(a)
    \/ \E a \in Allocators : AllocFail(a)
    \/ \E a \in Allocators : AllocAppend(a)
    \/ \E a \in Allocators : AllocReturn(a)

\* One ListAndWatch stream, Allocate calls and a changing filesystem.
Init == InitWith({"w1"})
Next == FsChange \/ LoopStep({"w1"}) \/ AllocStep
Spec == Init /\ [][Next]_vars

\* One ListAndWatch stream on a changing filesystem, its goroutine always
\* scheduled again while it has a step to take.
NextWatch == FsChange \/ LoopStep({"w1"})
SpecFair == Init /\ [][NextWatch]_vars /\ WF_vars(LoopStep({"w1"}))

\* Two ListAndWatch streams open at once and a changing filesystem.
InitLoops == InitWith(Loops)
NextLoops == FsChange \/ LoopStep(Loops) \/ (\E w \in Loops : BuildFault(w))
SpecLoops == InitLoops /\ [][NextLoops]_vars


(***************************************************************************)
(* Properties.                                                             *)
(***************************************************************************)
\* a refreshDevices call of w returns successfully in this step
Returns(w) == pc[w] = "insert" /\ pc'[w] # "insert"

\* C1: refreshDevices returns unchanged = true exactly when the identifiers of
\* the discovered list are the identifiers of the previous table.
C1_UnchangedIffSameIdentifiers ==
    [][\A w \in Loops :
         Returns(w) => (unchanged'[w] <=> (IdSet(found[w]) = DOMAIN old[w]))]_vars

\* C2: while the filesystem never changes, the refresh of a tick returns
\* unchanged = true and a stream carries its initial response and no other.
C2_OneResponseWithoutChange ==
    \A w \in Loops :
        fsChanges = 0 =>
            /\ stream[w].sent <= 1
            /\ (ticks[w] >= 1 /\ pc[w] \in {"build", "send", "wait"}) => unchanged[w]

\* an Allocate call of a returns in this step
AllocEnds(a) == apc[a] = "run" /\ apc'[a] = "done"

\* some identifier of request r is absent from table or not Healthy
HasBadIdentifier(r, table) ==
    \E g \in 1..Len(r) : \E k \in 1..Len(r[g]) :
        r[g][k] \notin DOMAIN table \/ table[r[g][k]].Health # Healthy

\* C3: an Allocate call that names an absent or unhealthy identifier returns
\* an error and no response, whatever it had bound before reaching it.
C3_AllocateAllOrNothing ==
    [][\A a \in Allocators :
         (AllocEnds(a) /\ HasBadIdentifier(req[a], devices))
            => (result'[a].res = Nil /\ result'[a].err # Nil)]_vars

\* C3 witness: a call failed in its second request after binding the first.
C3_FailedAfterBinding ==
    \E a \in Allocators :
        /\ apc[a] = "done" /\ result[a].err # Nil /\ result[a].res = Nil
        /\ group[a] = 2 /\ Len(responses[a]) = 1 /\ Len(responses[a][1]) > 0

\* C4: while an Allocate call runs no refresh is rebuilding the table and the
\* table does not change, so the whole call reads one installed table.
C4_AllocateReadsOneInstalledTable ==
    /\ [](\A a \in Allocators : apc[a] = "run" => \A w \in Loops : pc[w] # "insert")
    /\ [][\A a \in Allocators : apc[a] = "run" => devices' = devices]_vars

\* C4 witness: a refresh waits for the lock while an Allocate call is between
\* two of its identifiers.
C4_RefreshWaitsForAllocate ==
    \E a \in Allocators, w \in Loops :
        apc[a] = "run" /\ item[a] > 1 /\ pc[w] = "lock" /\ found[w] # <<>>

\* the complete tables a reader other than the refreshing goroutine may meet
CompleteTables(w) ==
    IF \E v \in Loops \ {w} : pc[v] = "insert"
    THEN LET v == CHOOSE v \in Loops \ {w} : pc[v] = "insert"
         IN {old[v], TableOf(found[v])}
    ELSE {devices}

\* C5: the list a watch loop builds is the list of a completely installed
\* table, never of a table a refresh is still filling.
C5_ReadersSeeCompleteTables ==
    [][\A w \in Loops :
         (pc[w] = "build" /\ pc'[w] = "send")
            => \E table \in CompleteTables(w) : res'[w] = DeviceList(table)]_vars

\* C6: a refresh whose discovery fails returns an error and leaves the table
\* as it was.
C6_FailedRefreshKeepsTable ==
    [][\A w \in Loops :
         (pc[w] = "discover" /\ pc'[w] = "terminated")
            => (devices' = devices /\ err'[w] # Nil)]_vars

\* C6 witness: discovery failed on a tick and the table of the earlier refresh
\* is still installed.
C6_FailedWithTableInstalled ==
    \E w \in Loops :
        /\ pc[w] = "terminated" /\ err[w] = "failed to discover devices"
        /\ ticks[w] >= 1 /\ DOMAIN devices # {}

\* a refreshDevices call of w is between its start and its return
Refreshing(w) == pc[w] \in {"discover", "gauge", "lock", "insert"}

\* C7: when no refresh is in progress the table holds exactly the identifiers
\* of the discovery performed last.
C7_TableIsLatestDiscovery ==
    ((\A w \in Loops : ~Refreshing(w)) /\ latest # Nil)
        => DOMAIN devices = IdSet(found[latest])

\* least element of a non-empty set of numbers
Least(S) == CHOOSE n \in S : \A m \in S : n <= m

\* the devices of one group by its usable length: index i takes the i-th
\* match of every pattern, once per ordinal
UsableDevices(patterns, count, fs) ==
    LET paths == [k \in 1..Len(patterns) |-> Glob(patterns[k], fs).matches]
        usable == IF patterns = <<>> THEN 0
                  ELSE Least({Len(paths[k]) : k \in 1..Len(patterns)})
    IN [n \in 1..(usable * count) |->
            NewDevice(paths, ((n - 1) \div count) + 1, (n - 1) % count)]

RECURSIVE UsableFrom(_, _, _)
UsableFrom(spec, g, fs) ==
    IF g > Len(spec.Groups) THEN <<>>
    ELSE UsableDevices(spec.Groups[g], spec.Count, fs) \o UsableFrom(spec, g + 1, fs)

\* C8: discovery never faults, and what it returns is, group by group, the
\* devices of the minimum match count of the group.
C8_UsableLengthIsMinimum ==
    /\ [](fault # "index out of range")
    /\ [][\A w \in Loops :
            (pc[w] = "discover" /\ pc'[w] = "gauge")
                => found'[w] = UsableFrom(ds, 1, files)]_vars

\* C9: the devices of one discovery have pairwise distinct identifiers, and
\* the table built from them has one entry for each.
C9_DistinctIdentifiers ==
    \A w \in Loops :
        /\ pc[w] \in {"gauge", "lock", "insert"}
              => \A m, n \in 1..Len(found[w]) : m # n => found[w][m].ID # found[w][n].ID
        /\ (pc[w] = "insert" /\ next[w] > Len(found[w]))
              => Cardinality(DOMAIN devices) = Len(found[w])

RECURSIVE Flatten(_)
Flatten(ss) == IF ss = <<>> THEN <<>> ELSE Head(ss) \o Flatten(Tail(ss))

\* one binding per resolved path of each requested device, request by request
ExpectedResponse(r, table) ==
    [g \in 1..Len(r) |->
        Flatten([k \in 1..Len(r[g]) |->
            [n \in 1..Len(table[r[g][k]].paths) |->
                [HostPath |-> table[r[g][k]].paths[n],
                 ContainerPath |-> table[r[g][k]].paths[n],
                 Permissions |-> "mrw"]]])]

\* C10: a successful Allocate returns one response per request, in order,
\* holding for each identifier and each of its paths, in order, the binding
\* of that path to itself with permission "mrw".
C10_BindingFidelity ==
    [][\A a \in Allocators :
         (AllocEnds(a) /\ result'[a].err = Nil)
            => result'[a].res = ExpectedResponse(req[a], devices)]_vars

\* C10 witness: two requests answered, the second with two devices of two
\* paths each.
C10_TwoResponsesReturned ==
    \E a \in Allocators :
        /\ apc[a] = "done" /\ result[a].err = Nil
        /\ Len(result[a].res) = 2 /\ Len(result[a].res[2]) = 4

\* the identifiers of table whose device is built on a path not in fs
BuiltOnRemoved(table, fs) ==
    {id \in DOMAIN table : \E n \in 1..Len(table[id].paths) : table[id].paths[n] \notin fs}

\* C11: once a matched path is gone, the next refresh (unless its globs
\* fail) discovers without the devices built on it, returns unchanged = false
\* and installs a table without them, and Allocate fails on an identifier
\* the table does not hold.
C11_RemovedPathDropsDevice ==
    /\ [][\A w \in Loops :
            (pc[w] = "discover" /\ BuiltOnRemoved(devices, files) # {}
                /\ (pc'[w] # "discover" \/ fault' # Nil) /\ pc'[w] # "terminated")
               => (fault' = Nil /\ BuiltOnRemoved(devices, files) \cap IdSet(found'[w]) = {})]_vars
    /\ [][\A w \in Loops :
            Returns(w) =>
                /\ DOMAIN devices' = IdSet(found[w])
                /\ (DOMAIN old[w] \ IdSet(found[w]) # {}) => ~unchanged'[w]]_vars
    /\ [][\A a \in Allocators :
            (AllocEnds(a) /\ \E g \in 1..Len(req[a]) : \E k \in 1..Len(req[a][g]) :
                                req[a][g][k] \notin DOMAIN devices)
               => result'[a].err # Nil]_vars

\* the identifiers a response carries
ResponseIds(list) == {d.ID : d \in list}

\* C12: a loop has sent nothing before its first refresh returns and exactly
\* one response when it first waits, and every response it sends lists, with
\* its health, each device of the table its last refresh installed.
C12_FullListAfterRefresh ==
    /\ [](\A w \in Loops :
            ticks[w] = 0 =>
                /\ pc[w] \in {"idle", "discover", "gauge", "lock", "insert", "build", "send"}
                      => stream[w].sent = 0
                /\ pc[w] = "wait" => stream[w].sent = 1)
    /\ [][\A w \in Loops :
            (pc[w] = "send" /\ pc'[w] = "wait") =>
                LET table == TableOf(found[w])
                IN /\ stream'[w].sent = stream[w].sent + 1
                   /\ stream'[w].last =
                         {[ID |-> id, Health |-> table[id].Health] : id \in DOMAIN table}
                   /\ Cardinality(stream'[w].last) = Cardinality(DOMAIN devices)]_vars

\* C12 witness: the response of a tick went out, with devices in it, after an
\* Allocate call was served.
C12_SecondResponseSent ==
    \E w \in Loops, a \in Allocators :
        /\ stream[w].sent = 2 /\ stream[w].last # {}
        /\ calls[a] >= 1 /\ apc[a] = "done"

\* C13: a loop that returned an error is terminated and stays so: it sends
\* nothing more, and with no other loop running the table and the gauge keep
\* their values; a loop has an error exactly when it is terminated, and one
\* that failed in its first refresh has sent nothing.
C13_TerminatedIsAbsorbing ==
    /\ [](\A w \in Loops :
            /\ (err[w] # Nil) <=> (pc[w] = "terminated")
            /\ (pc[w] = "terminated" /\ ticks[w] = 0
                   /\ err[w] = "failed to discover devices") => stream[w].sent = 0)
    /\ [][\A w \in Loops :
            pc[w] = "terminated" =>
                /\ pc'[w] = "terminated" /\ err'[w] = err[w]
                /\ stream'[w] = stream[w] /\ ticks'[w] = ticks[w] /\ mu' # w
                /\ (\A v \in Loops \ {w} : pc[v] = "idle")
                      => (devices' = devices /\ deviceGauge' = deviceGauge)]_vars

\* C13 witness: a loop ended by a send error on a tick while the filesystem
\* changed afterwards or before.
C13_TerminatedBySendError ==
    \E w \in Loops :
        /\ pc[w] = "terminated" /\ err[w] = "send failed"
        /\ ticks[w] = 1 /\ stream[w].sent = 1 /\ fsChanges = 1

\* C14: while the loop is in discovery, before its Lock, or in a send, the
\* lock is free or held by an Allocate call, every Allocate caller has a step
\* to take, and the table is the complete table of the last refresh.
C14_LockFreeInDiscoveryAndSend ==
    \A w \in Loops :
        (fault = Nil /\ pc[w] \in {"discover", "gauge", "send"}
            /\ \A v \in Loops \ {w} : pc[v] = "idle")
        => /\ mu \in {Nil} \cup Allocators
           /\ pc[w] # "gauge" => devices = TableOf(found[w])
           /\ \A a \in Allocators :
                 /\ (apc[a] # "run" /\ calls[a] < MaxAllocCalls /\ mu = Nil)
                       => ENABLED (\E r \in Requests : AllocLock(a, r))
                 /\ apc[a] = "run"
                       => (mu = a /\ ENABLED (AllocDevice(a) \/ AllocFail(a)
                                                \/ AllocAppend(a) \/ AllocReturn(a)))

\* C14 witness: an Allocate call holds the lock and has bound a device while
\* the loop is in the discovery of a tick.
C14_AllocateDuringDiscovery ==
    \E w \in Loops, a \in Allocators :
        /\ pc[w] = "discover" /\ ticks[w] = 1
        /\ apc[a] = "run" /\ mu = a /\ resp[a] # <<>>

\* C15: the table a refresh installs is the table of its discovery alone,
\* whatever the table held before; on an unchanged filesystem a later
\* discovery returns the same devices and the refresh installs the same table,
\* identifier by identifier and path by path.
C15_RefreshIsIdempotent ==
    /\ [][\A w \in Loops : Returns(w) => devices' = TableOf(found[w])]_vars
    /\ [][\A w \in Loops :
            (pc[w] = "discover" /\ pc'[w] = "gauge" /\ ticks[w] >= 1 /\ fsChanges = 0)
               => found'[w] = found[w]]_vars
    /\ [][\A w \in Loops :
            (Returns(w) /\ ticks[w] >= 1 /\ fsChanges = 0
                /\ \A v \in Loops \ {w} : pc[v] = "idle")
               => devices' = old[w]]_vars

\* C15 witness: the refresh of a tick has returned on an unchanged filesystem
\* with devices in the table.
C15_SecondRefreshSameTable ==
    \E w \in Loops :
        /\ ticks[w] = 1 /\ pc[w] = "build" /\ fsChanges = 0
        /\ DOMAIN devices # {} /\ devices = TableOf(found[w])

\* C16: a step that ends an Allocate call adds the number of its requests to
\* the counter when it succeeds and nothing when it fails, and no other step
\* changes the counter.
C16_CounterCountsSatisfiedRequests ==
    [][IF \E a \in Allocators : AllocEnds(a)
       THEN \E a \in Allocators :
                /\ AllocEnds(a)
                /\ allocationsCounter' = allocationsCounter +
                       (IF result'[a].err = Nil THEN Len(req[a]) ELSE 0)
       ELSE allocationsCounter' = allocationsCounter]_vars

\* C16 witness: after a call of two requests succeeded, a second call failed
\* in its second request and the counter is still 2.
C16_FailedCallAddsNothing ==
    \E a \in Allocators :
        /\ calls[a] = 2 /\ apc[a] = "done" /\ result[a].err # Nil
        /\ group[a] = 2 /\ Len(responses[a]) = 1 /\ allocationsCounter = 2

\* C17: every device of the table and of every response is Healthy, and no
\* Allocate call fails because a device is not healthy.
C17_AlwaysHealthy ==
    /\ \A id \in DOMAIN devices : devices[id].Health = Healthy
    /\ \A w \in Loops : \A d \in res[w] \cup stream[w].last : d.Health = Healthy
    /\ \A a \in Allocators : result[a].err \in {Nil, "requested device does not exist"}

\* C17 witness: a response with devices has been sent and an Allocate call
\* has failed on an absent identifier.
C17_FailedOnAbsentIdentifier ==
    \E w \in Loops, a \in Allocators :
        /\ stream[w].sent >= 1 /\ stream[w].last # {} /\ DOMAIN devices # {}
        /\ apc[a] = "done" /\ result[a].err = "requested device does not exist"

\* C18: no step of an Allocate call changes the table, and every identifier
\* of a call that succeeded is still in the table when it returns.
C18_AllocateKeepsTable ==
    [][/\ (allocVars' # allocVars) => devices' = devices
       /\ \A a \in Allocators :
             (AllocEnds(a) /\ result'[a].err = Nil)
                => \A g \in 1..Len(req[a]) : \A k \in 1..Len(req[a][g]) :
                      req[a][g][k] \in DOMAIN devices']_vars

\* C18 witness: a second call has bound the device of a1 again, after a first
\* call of two requests that bound it.
C18_BoundAgain ==
    \E a \in Allocators :
        /\ calls[a] = 2 /\ apc[a] = "done" /\ result[a].err = Nil
        /\ req[a] = << <<Sha1Hex("0a1"), Sha1Hex("0a1")>>, <<>> >>
        /\ allocationsCounter = 4

\* the table on the filesystem as it is now, were discovery to run
Discoverable == IdSet(discover(ds, files).devices)

\* C19: the loop never waits for the interval with a last message whose
\* identifiers differ from the table's; a refresh of a tick that leaves the
\* table different from the last message goes on to build a message; under
\* fairness a table that differs from the last message is pushed unless the
\* stream ends, and so is the final membership of the filesystem while a tick
\* is left.
C19_NeverStale ==
    /\ [](\A w \in Loops : pc[w] = "wait" => ResponseIds(stream[w].last) = DOMAIN devices)
    /\ [][\A w \in Loops :
            (Returns(w) /\ ticks[w] >= 1 /\ DOMAIN devices' # ResponseIds(stream[w].last))
               => (pc'[w] = "build" /\ ~ok'[w])]_vars
    /\ \A w \in Loops :
          (pc[w] = "build" /\ DOMAIN devices # ResponseIds(stream[w].last))
             ~> (ResponseIds(stream[w].last) = DOMAIN devices \/ pc[w] = "terminated")
    /\ \A w \in Loops :
          (/\ pc[w] = "wait" /\ TotalTicks(Loops) < MaxTicks
           /\ fsChanges = MaxFsChanges /\ Discoverable # ResponseIds(stream[w].last))
             ~> \/ ResponseIds(stream[w].last) = Discoverable
                \/ pc[w] = "terminated"
                \/ fault # Nil

\* C19 witness: after the refresh of a tick the message built carries the
\* identifiers of the table, which differ from those of the one message sent.
C19_StaleBeforeSecondSend ==
    \E w \in Loops :
        /\ pc[w] = "send" /\ ticks[w] = 1 /\ stream[w].sent = 1
        /\ ResponseIds(res[w]) = DOMAIN devices
        /\ DOMAIN devices # ResponseIds(stream[w].last)

\* C20: whenever no refresh is in progress the gauge equals the number of
\* entries of the table, for every device specification and with the
\* refreshes of two loops interleaved.
C20_GaugeIsTableSize ==
    (\A w \in Loops : ~Refreshing(w)) => deviceGauge = Cardinality(DOMAIN devices)

====
